---- MODULE Spec2Model ----
(***************************************************************************)
(* Authentication and token lifecycle of the FitnessAI backend:            *)
(* register, login, refresh, logout and the bearer-token dependency        *)
(* get_current_user_id, over the users and token_blacklist tables; and the *)
(* push notification service over the push_tokens table.                   *)
(*                                                                         *)
(* Every request handler is one atomic action: a handler runs its queries  *)
(* and one db.commit() inside one request-scoped session. Only register   *)
(* and register_push_token are also taken apart into their queries and     *)
(* their commit (SpecRegister, SpecDevices), for requests served by        *)
(* several processes at once.                                              *)
(* The token codec and the password hashing of src/core/security.py are   *)
(* modelled from section 4.1 of the specification.                         *)
(* The store is taken to be available, but for the write of last_login in  *)
(* login, whose failure the specification speaks of.                       *)
(*                                                                         *)
(* Spec         the token lifecycle (login, refresh, logout, authenticate) *)
(*              over a store with one registered account;                  *)
(* SpecIssue    the same without logout;                                   *)
(* SpecLedger   all five auth operations, each token presented in the      *)
(*              request field it was issued for;                           *)
(* SpecAccounts register, the active flag and login from an empty store;   *)
(* SpecRegister register requests interleaved between query and commit;    *)
(* SpecPush     register_push_token and send_push_notification;            *)
(* SpecBulk     register_push_token and send_bulk_notification;            *)
(* SpecStore    login and refresh while accounts are disabled and deleted; *)
(* SpecDevices  register_push_token requests of two accounts interleaved   *)
(*              between query and commit, and deactivate_push_token;       *)
(* SpecTokens   register_push_token, deactivate_push_token and             *)
(*              send_push_notification for two accounts.                   *)
(***************************************************************************)
EXTENDS Integers, FiniteSets, Sequences, TLC

\* ------------------------------------------------------------------ bounds
\* Clock ticks the model lets pass.
MaxTime == 2
\* Number of tokens the codec may issue in one behaviour.
MaxJti == 3
\* Lifetimes of access and refresh tokens, in clock ticks
\* (ACCESS_TOKEN_EXPIRE_MINUTES / REFRESH_TOKEN_EXPIRE_DAYS are read from the
\* environment; only access < refresh matters here).
AccessTTL == 1
RefreshTTL == 2
\* Requests that may be between their checks and their commit at once.
MaxInflight == 2
\* Longest list of user ids handed to send_bulk_notification.
MaxBulk == 2

\* ------------------------------------------------------------ value spaces
\* Python's None, and the falsy value of payload.get(...) on an absent claim.
NoneV == "None"

\* Primary keys uuid4 can produce for users.id, in the order they are taken.
UserIds == <<"u1", "u2">>
Emails == {"a@x.com", "b@x.com"}
Usernames == {"alice", "bob"}
\* Passwords a client may type; accounts are registered with the first only.
Passwords == {"password123", "hunter2hunter2"}
RegisterPasswords == {"password123"}

\* uuid4 values the codec draws for jti, in the order they are drawn.
JtiNames == <<"j1", "j2", "j3", "j4", "j5", "j6", "j7", "j8">>

\* A token string is represented by what it carries: whether its signature
\* verifies under SECRET_KEY, and its claims (NoneV for an absent claim).
Malformed == [sig |-> FALSE, sub |-> NoneV, type |-> NoneV, jti |-> NoneV, exp |-> 0]

\* Tokens that verify under SECRET_KEY but were not produced by login/refresh:
\* one with no subject claim and one of a kind that is neither access nor refresh.
NoSubRefresh ==
    [sig |-> TRUE, sub |-> NoneV, type |-> "refresh", jti |-> "jx1", exp |-> MaxTime + 1]
OtherKind ==
    [sig |-> TRUE, sub |-> "u1", type |-> "reset", jti |-> "jx2", exp |-> MaxTime + 1]
Crafted == {Malformed, NoSubRefresh, OtherKind}

\* A signed access token whose sub is not the text of a UUID.
BadSubAccess ==
    [sig |-> TRUE, sub |-> "not-a-uuid", type |-> "access", jti |-> "jx3", exp |-> MaxTime + 1]

\* A signed access token for the registered account that carries no jti claim.
NoJtiAccess ==
    [sig |-> TRUE, sub |-> "u1", type |-> "access", jti |-> NoneV, exp |-> MaxTime + 1]

\* A refresh token login handed to the registered account before the clock of
\* the model started, still valid throughout.
EarlierRefresh ==
    [sig |-> TRUE, sub |-> "u1", type |-> "refresh", jti |-> "jx0", exp |-> MaxTime + 1]

\* FCM registration tokens of devices, their platforms and device ids.
PushTokenStrings == {"t1", "t2"}
Platforms == {"ios", "android"}
DeviceIds == {"d1"}

\* What messaging.send does for a token: it returns a message id, raises
\* messaging.UnregisteredError, or raises another exception.
FcmOutcomes == {"ok", "unregistered", "error"}

VARIABLES
    users,      \* rows of table users
    blacklist,  \* rows of table token_blacklist (the Revocation Ledger)
    issued,     \* token strings handed out by login and refresh so far
    nextJti,    \* how many jti values the codec has drawn
    now,        \* the clock (datetime.utcnow())
    resp,       \* the response to the request just handled, with its request;
                \* NoResponse when the last step was not a request
    pairs,      \* history: the <<access, refresh>> pairs login has returned
    loggedOut,  \* history: the <<access, refresh>> pairs logout answered 200 for
    inflight,   \* requests that ran their queries and have not committed
    push_tokens,    \* rows of table push_tokens
    firebase_path,  \* whether settings.FIREBASE_CREDENTIALS_PATH is set
    firebase_app,   \* the module global _firebase_app
    push_ret,       \* what the push service call just made returned or raised
    bulk            \* the send_bulk_notification call in progress

authVars == <<users, blacklist, issued, nextJti, now, resp, pairs, loggedOut>>
pushVars == <<push_tokens, firebase_path, firebase_app, push_ret, bulk>>
vars == <<authVars, inflight, pushVars>>

\* ------------------------------------------------------------- token codec
\* get_password_hash: a one-way salted digest, never the plaintext.
get_password_hash(password) == <<"bcrypt", password>>

\* verify_password(plain, hashed).
verify_password(password, hashed) == get_password_hash(password) = hashed

\* create_access_token(data={"sub": sub}): {sub, type: access, jti: fresh, exp: now + ttl}.
create_access_token(sub, n, t) ==
    [sig |-> TRUE, sub |-> sub, type |-> "access", jti |-> JtiNames[n], exp |-> t + AccessTTL]

\* create_refresh_token(data={"sub": sub}).
create_refresh_token(sub, n, t) ==
    [sig |-> TRUE, sub |-> sub, type |-> "refresh", jti |-> JtiNames[n], exp |-> t + RefreshTTL]

\* The falsy payload decode_token returns on any decode failure; err keeps the
\* codec's classification, which no handler looks at.
NoPayload(err) ==
    [ok |-> FALSE, err |-> err, sub |-> NoneV, type |-> NoneV, jti |-> NoneV, exp |-> 0]

\* decode_token(token): verifies signature and expiry, returns the claims.
decode_token(token, t) ==
    IF ~token.sig THEN NoPayload("Malformed")
    ELSE IF token.exp <= t THEN NoPayload("Expired")
    ELSE [ok |-> TRUE, err |-> NoneV, sub |-> token.sub, type |-> token.type,
          jti |-> token.jti, exp |-> token.exp]

\* get_jti_from_token(token): the jti claim of a token that decodes, else None.
get_jti_from_token(token, t) == decode_token(token, t).jti

\* Python's `a or b` on claim values.
PyOr(a, b) == IF a # NoneV THEN a ELSE b

\* ---------------------------------------------------------------- responses
\* What a caller sees (status, detail, tokens, user id) together with the
\* request it answers (req).
NoReq ==
    [email |-> NoneV, password |-> NoneV, access_token |-> {}, refresh_token |-> {},
     bearer |-> {}, commit_ok |-> TRUE]

Response(op, status, detail, access, refresh, uid, req) ==
    [op |-> op, status |-> status, detail |-> detail, access_token |-> access,
     refresh_token |-> refresh, user_id |-> uid, req |-> req]

NoResponse == Response("none", 0, NoneV, {}, {}, NoneV, NoReq)

\* What a push service call returned ("True", "False") or that it raised,
\* together with what it was called with: the user, the rows its query
\* found (tokens), what messaging.send did per token (fcm), and the tokens
\* messaging.send was called for, in order (sent_to).
PushRet(op, user_id, result, tokens, fcm, sent_to) ==
    [op |-> op, user_id |-> user_id, result |-> result, tokens |-> tokens,
     fcm |-> fcm, sent_to |-> sent_to]

NoPushRet ==
    PushRet("none", NoneV, NoneV, {}, [t \in PushTokenStrings |-> "ok"], <<>>)

\* No send_bulk_notification call is running.
NoBulk ==
    [pc |-> "idle", user_ids |-> <<>>, processed |-> <<>>, outcomes |-> <<>>,
     results |-> [success |-> 0, failed |-> 0, total |-> 0]]

\* ------------------------------------------------------------------- tables
\* db.query(User).filter(User.email == email).first(), as a set of 0 or 1 rows.
UserByEmail(email) == {u \in users : u.email = email}
UserByUsername(username) == {u \in users : u.username = username}
UserIdsInUse == {u.id : u \in users}

\* The token strings a client can present: any it was handed, or a crafted one.
Presentable == issued \cup Crafted

\* A row of table users as register stores it.
User(id, email, username, password) ==
    [id |-> id, email |-> email, username |-> username,
     hashed_password |-> get_password_hash(password),
     is_active |-> TRUE, last_login |-> -1]

\* The store the token endpoints start from: one registered account
\* (SpecAccounts below reaches this store from the empty one through register).
RegisteredUsers ==
    {User(UserIds[1], "a@x.com", "alice", "password123")}

Init ==
    /\ users = RegisteredUsers
    /\ blacklist = {}
    /\ issued = {}
    /\ nextJti = 0
    /\ now = 0
    /\ resp = NoResponse
    /\ pairs = {}
    /\ loggedOut = {}
    /\ inflight = {}
    /\ push_tokens = {}
    /\ firebase_path = FALSE
    /\ firebase_app = NoneV
    /\ push_ret = NoPushRet
    /\ bulk = NoBulk

\* The service in front of an empty store.
InitAccounts ==
    /\ users = {}
    /\ blacklist = {}
    /\ issued = {}
    /\ nextJti = 0
    /\ now = 0
    /\ resp = NoResponse
    /\ pairs = {}
    /\ loggedOut = {}
    /\ inflight = {}
    /\ push_tokens = {}
    /\ firebase_path = FALSE
    /\ firebase_app = NoneV
    /\ push_ret = NoPushRet
    /\ bulk = NoBulk

\* The clock advances between requests.
Tick ==
    /\ now < MaxTime
    /\ now' = now + 1
    /\ resp' = NoResponse
    /\ UNCHANGED <<users, blacklist, issued, nextJti, pairs, loggedOut, inflight, pushVars>>

\* An account's is_active flag is changed outside the auth endpoints
\* (register always stores TRUE; the column is an ordinary mutable Boolean).
SetUserActive(u, flag) ==
    /\ u \in users
    /\ u.is_active # flag
    /\ users' = (users \ {u}) \cup {[u EXCEPT !.is_active = flag]}
    /\ resp' = NoResponse
    /\ UNCHANGED <<blacklist, issued, nextJti, now, pairs, loggedOut, inflight, pushVars>>

\* An account is deleted outside the auth endpoints; the rows of
\* token_blacklist and push_tokens that refer to it go with it
\* (ForeignKey("users.id", ondelete="CASCADE")).
DeleteUser(u) ==
    /\ u \in users
    /\ users' = users \ {u}
    /\ blacklist' = {b \in blacklist : b.user_id # u.id}
    /\ push_tokens' = {r \in push_tokens : r.user_id # u.id}
    /\ resp' = NoResponse
    /\ push_ret' = NoPushRet
    /\ UNCHANGED <<issued, nextJti, now, pairs, loggedOut, inflight,
                   firebase_path, firebase_app, bulk>>

\* ----------------------------------------------------------------- register
\* POST /register.
register(email, username, password) ==
    LET req == [NoReq EXCEPT !.email = email, !.password = password]
        new_user == User(UserIds[Cardinality(users) + 1], email, username, password)
    IN  /\ IF UserByEmail(email) # {}
           THEN /\ resp' = Response("register", 400, "Email already registered",
                                    {}, {}, NoneV, req)
                /\ UNCHANGED users
           ELSE IF UserByUsername(username) # {}
           THEN /\ resp' = Response("register", 400, "Username already taken",
                                    {}, {}, NoneV, req)
                /\ UNCHANGED users
           ELSE /\ Cardinality(users) < Len(UserIds)
                /\ users' = users \cup {new_user}
                /\ resp' = Response("register", 201, NoneV, {}, {}, new_user.id, req)
        /\ UNCHANGED <<blacklist, issued, nextJti, now, pairs, loggedOut, inflight, pushVars>>

\* Register requests served by several server processes over one database:
\* a request runs its two existence queries (register_begin) and later its
\* db.commit() (register_commit); requests of other processes may run between.

\* The existence checks of register (register.py lines 36-50).
register_check(email, username) ==
    IF UserByEmail(email) # {}
    THEN [status |-> 400, detail |-> "Email already registered"]
    ELSE IF UserByUsername(username) # {}
    THEN [status |-> 400, detail |-> "Username already taken"]
    ELSE [status |-> 200, detail |-> NoneV]

\* Whether table users accepts the row at db.commit(): email and username
\* are UNIQUE columns; a violation raises IntegrityError.
users_accepts(row) ==
    \A u \in users : u.email # row.email /\ u.username # row.username

\* The queries of a register request; one that passes them is in flight.
register_begin(email, username, password) ==
    LET req == [NoReq EXCEPT !.email = email, !.password = password]
        chk == register_check(email, username)
        rid == CHOOSE i \in 1..(MaxInflight + 1) : \A r \in inflight : r.rid # i
    IN  /\ IF chk.status # 200
           THEN /\ resp' = Response("register", chk.status, chk.detail, {}, {}, NoneV, req)
                /\ UNCHANGED inflight
           ELSE /\ Cardinality(inflight) < MaxInflight
                /\ inflight' = inflight \cup
                       {[rid |-> rid, email |-> email, username |-> username,
                         password |-> password]}
                /\ resp' = NoResponse
        /\ UNCHANGED <<users, blacklist, issued, nextJti, now, pairs, loggedOut, pushVars>>

\* db.add(new_user); db.commit() of a request in flight (register.py lines
\* 52-74). IntegrityError is caught nowhere and ends the request with 500.
register_commit(r) ==
    LET req == [NoReq EXCEPT !.email = r.email, !.password = r.password]
        new_user == User(UserIds[Cardinality(users) + 1], r.email, r.username, r.password)
    IN  /\ r \in inflight
        /\ inflight' = inflight \ {r}
        /\ IF users_accepts([email |-> r.email, username |-> r.username])
           THEN /\ Cardinality(users) < Len(UserIds)
                /\ users' = users \cup {new_user}
                /\ resp' = Response("register", 201, NoneV, {}, {}, new_user.id, req)
           ELSE /\ resp' = Response("register", 500, "Internal Server Error",
                                    {}, {}, NoneV, req)
                /\ UNCHANGED users
        /\ UNCHANGED <<blacklist, issued, nextJti, now, pairs, loggedOut, pushVars>>

\* -------------------------------------------------------------------- login
\* login_check with the active flag looked at before the password.
login_check_active_first(email, password) ==
    LET found == UserByEmail(email)
    IN  IF found = {}
        THEN [status |-> 401, detail |-> "Invalid email or password"]
        ELSE LET user == CHOOSE u \in found : TRUE
             IN  IF ~user.is_active
                 THEN [status |-> 403, detail |-> "User account is disabled"]
                 ELSE IF ~verify_password(password, user.hashed_password)
                 THEN [status |-> 401, detail |-> "Invalid email or password"]
                 ELSE [status |-> 200, detail |-> NoneV]

\* login_check without the check of the active flag.
login_check_no_active(email, password) ==
    LET found == UserByEmail(email)
    IN  IF found = {}
        THEN [status |-> 401, detail |-> "Invalid email or password"]
        ELSE LET user == CHOOSE u \in found : TRUE
             IN  IF ~verify_password(password, user.hashed_password)
                 THEN [status |-> 401, detail |-> "Invalid email or password"]
                 ELSE [status |-> 200, detail |-> NoneV]

\* The checks of login before any token is made (login.py lines 36-57):
\* the status and detail of the failure, or 200.
login_check(email, password) ==
    LET found == UserByEmail(email)
    IN  IF found = {}
        THEN [status |-> 401, detail |-> "Invalid email or password"]
        ELSE LET user == CHOOSE u \in found : TRUE
             IN  IF ~verify_password(password, user.hashed_password)
                 THEN [status |-> 401, detail |-> "Invalid email or password"]
                 ELSE IF ~user.is_active
                 THEN [status |-> 403, detail |-> "User account is disabled"]
                 ELSE [status |-> 200, detail |-> NoneV]

\* The token pair login makes for a user (login.py lines 59-61).
login_tokens(user, n, t) ==
    [access_token |-> create_access_token(user.id, n + 1, t),
     refresh_token |-> create_refresh_token(user.id, n + 2, t)]

\* POST /login. commit_ok: whether the store accepts the last_login write;
\* an exception of db.commit() is not caught and ends the request with 500.
login(email, password, commit_ok) ==
    LET req == [NoReq EXCEPT !.email = email, !.password = password,
                             !.commit_ok = commit_ok]
        chk == login_check(email, password)
    IN  /\ IF chk.status # 200
           THEN /\ resp' = Response("login", chk.status, chk.detail, {}, {}, NoneV, req)
                /\ UNCHANGED <<users, issued, nextJti, pairs>>
           ELSE LET user == CHOOSE u \in UserByEmail(email) : TRUE
                    toks == login_tokens(user, nextJti, now)
                IN  IF commit_ok
                    THEN /\ nextJti + 2 <= MaxJti
                         /\ nextJti' = nextJti + 2
                         /\ users' = (users \ {user}) \cup
                                         {[user EXCEPT !.last_login = now]}
                         /\ issued' = issued \cup
                                         {toks.access_token, toks.refresh_token}
                         /\ pairs' = pairs \cup
                                         {<<toks.access_token, toks.refresh_token>>}
                         /\ resp' = Response("login", 200, NoneV,
                                             {toks.access_token},
                                             {toks.refresh_token}, NoneV, req)
                    ELSE /\ resp' = Response("login", 500, "Internal Server Error",
                                             {}, {}, NoneV, req)
                         /\ UNCHANGED <<users, issued, nextJti, pairs>>
        /\ UNCHANGED <<blacklist, now, loggedOut, inflight, pushVars>>

\* ------------------------------------------------------------------ refresh
\* refresh_check without the check of the token kind.
refresh_check_any_kind(payload) ==
    IF ~payload.ok
    THEN [status |-> 401, detail |-> "Invalid refresh token"]
    ELSE IF payload.sub = NoneV
    THEN [status |-> 401, detail |-> "Invalid token payload"]
    ELSE [status |-> 200, detail |-> NoneV]

\* The checks of refresh_token on the decoded payload (refresh.py lines 37-57).
refresh_check(payload) ==
    IF ~payload.ok
    THEN [status |-> 401, detail |-> "Invalid refresh token"]
    ELSE IF payload.type # "refresh"
    THEN [status |-> 401, detail |-> "Invalid token type"]
    ELSE IF payload.sub = NoneV
    THEN [status |-> 401, detail |-> "Invalid token payload"]
    ELSE [status |-> 200, detail |-> NoneV]

\* refresh_token looking the subject up and refusing a missing or disabled
\* account, as login does.
refresh_token_for_active_account(token) ==
    LET req == [NoReq EXCEPT !.refresh_token = {token}]
        payload == decode_token(token, now)
        chk == refresh_check(payload)
        account == {u \in users : u.id = payload.sub /\ u.is_active}
    IN  /\ IF chk.status # 200
           THEN /\ resp' = Response("refresh", chk.status, chk.detail, {}, {}, NoneV, req)
                /\ UNCHANGED <<issued, nextJti>>
           ELSE IF account = {}
           THEN /\ resp' = Response("refresh", 401, "Invalid refresh token",
                                    {}, {}, NoneV, req)
                /\ UNCHANGED <<issued, nextJti>>
           ELSE LET access_token == create_access_token(payload.sub, nextJti + 1, now)
                IN  /\ nextJti + 1 <= MaxJti
                    /\ nextJti' = nextJti + 1
                    /\ issued' = issued \cup {access_token}
                    /\ resp' = Response("refresh", 200, NoneV, {access_token}, {token},
                                        NoneV, req)
        /\ UNCHANGED <<users, blacklist, now, pairs, loggedOut, inflight, pushVars>>

\* refresh_token answering with a new refresh token instead of the one given.
refresh_token_rotating(token) ==
    LET req == [NoReq EXCEPT !.refresh_token = {token}]
        payload == decode_token(token, now)
        chk == refresh_check(payload)
    IN  /\ IF chk.status # 200
           THEN /\ resp' = Response("refresh", chk.status, chk.detail, {}, {}, NoneV, req)
                /\ UNCHANGED <<issued, nextJti>>
           ELSE LET access_token == create_access_token(payload.sub, nextJti + 1, now)
                    rotated == create_refresh_token(payload.sub, nextJti + 1, now)
                IN  /\ nextJti + 1 <= MaxJti
                    /\ nextJti' = nextJti + 1
                    /\ issued' = issued \cup {access_token, rotated}
                    /\ resp' = Response("refresh", 200, NoneV, {access_token}, {rotated},
                                        NoneV, req)
        /\ UNCHANGED <<users, blacklist, now, pairs, loggedOut, inflight, pushVars>>

\* POST /refresh. The lookup in token_blacklist is commented out in the source
\* (refresh.py lines 59-65), so the table is not read.
refresh_token(token) ==
    LET req == [NoReq EXCEPT !.refresh_token = {token}]
        payload == decode_token(token, now)
        chk == refresh_check(payload)
    IN  /\ IF chk.status # 200
           THEN /\ resp' = Response("refresh", chk.status, chk.detail, {}, {}, NoneV, req)
                /\ UNCHANGED <<issued, nextJti>>
           ELSE LET access_token == create_access_token(payload.sub, nextJti + 1, now)
                IN  /\ nextJti + 1 <= MaxJti
                    /\ nextJti' = nextJti + 1
                    /\ issued' = issued \cup {access_token}
                    /\ resp' = Response("refresh", 200, NoneV, {access_token}, {token},
                                        NoneV, req)
        /\ UNCHANGED <<users, blacklist, now, pairs, loggedOut, inflight, pushVars>>

\* ------------------------------------------------------------------- logout
\* The checks of logout on the two decoded payloads (logout.py lines 34-49).
logout_check(access_payload, refresh_payload) ==
    IF ~access_payload.ok \/ ~refresh_payload.ok
    THEN [status |-> 400, detail |-> "Invalid tokens"]
    ELSE IF PyOr(access_payload.sub, refresh_payload.sub) = NoneV
    THEN [status |-> 400, detail |-> "Invalid token payload"]
    ELSE [status |-> 200, detail |-> "Successfully logged out"]

\* TokenBlacklist(jti=..., user_id=..., token_type=..., expires_at=..., reason=...).
TokenBlacklist(jti, user_id, token_type, expires_at) ==
    [jti |-> jti, user_id |-> user_id, token_type |-> token_type,
     expires_at |-> expires_at, reason |-> "logout"]

\* logout_entries recording the expiry of the refresh token in both rows.
logout_entries_one_expiry(access_token, refresh_token_, t) ==
    LET access_payload == decode_token(access_token, t)
        refresh_payload == decode_token(refresh_token_, t)
        user_id == PyOr(access_payload.sub, refresh_payload.sub)
        access_jti == PyOr(get_jti_from_token(access_token, t), access_payload.jti)
        refresh_jti == PyOr(get_jti_from_token(refresh_token_, t), refresh_payload.jti)
    IN  (IF access_jti # NoneV
         THEN <<TokenBlacklist(access_jti, user_id, "access", refresh_payload.exp)>>
         ELSE <<>>)
        \o
        (IF refresh_jti # NoneV
         THEN <<TokenBlacklist(refresh_jti, user_id, "refresh", refresh_payload.exp)>>
         ELSE <<>>)

\* The rows logout adds to the session, in order (logout.py lines 51-73).
logout_entries(access_token, refresh_token_, t) ==
    LET access_payload == decode_token(access_token, t)
        refresh_payload == decode_token(refresh_token_, t)
        user_id == PyOr(access_payload.sub, refresh_payload.sub)
        access_jti == PyOr(get_jti_from_token(access_token, t), access_payload.jti)
        refresh_jti == PyOr(get_jti_from_token(refresh_token_, t), refresh_payload.jti)
    IN  (IF access_jti # NoneV
         THEN <<TokenBlacklist(access_jti, user_id, "access", access_payload.exp)>>
         ELSE <<>>)
        \o
        (IF refresh_jti # NoneV
         THEN <<TokenBlacklist(refresh_jti, user_id, "refresh", refresh_payload.exp)>>
         ELSE <<>>)

\* Whether token_blacklist accepts the rows at db.commit(): jti is UNIQUE and
\* user_id is a foreign key to users.id; a violation raises IntegrityError and
\* the whole transaction is rolled back.
blacklist_accepts(rows) ==
    /\ \A i \in 1..Len(rows) :
          /\ \A b \in blacklist : b.jti # rows[i].jti
          /\ rows[i].user_id \in UserIdsInUse
    /\ \A i, j \in 1..Len(rows) : i # j => rows[i].jti # rows[j].jti

\* The rows as stored: each gets its own primary key.
Stored(rows) ==
    {[id |-> Cardinality(blacklist) + i] @@ rows[i] : i \in 1..Len(rows)}

\* logout that also deletes the rows whose expires_at has passed.
logout_purging(access_token, refresh_token_) ==
    LET req == [NoReq EXCEPT !.access_token = {access_token},
                             !.refresh_token = {refresh_token_}]
        chk == logout_check(decode_token(access_token, now),
                            decode_token(refresh_token_, now))
        rows == logout_entries(access_token, refresh_token_, now)
        live == {b \in blacklist : b.expires_at > now}
    IN  /\ IF chk.status # 200
           THEN /\ resp' = Response("logout", chk.status, chk.detail, {}, {}, NoneV, req)
                /\ blacklist' = live
                /\ UNCHANGED loggedOut
           ELSE IF ~blacklist_accepts(rows)
           THEN /\ resp' = Response("logout", 500, "Internal Server Error",
                                    {}, {}, NoneV, req)
                /\ UNCHANGED <<blacklist, loggedOut>>
           ELSE /\ blacklist' = live \cup Stored(rows)
                /\ loggedOut' = loggedOut \cup {<<access_token, refresh_token_>>}
                /\ resp' = Response("logout", 200, chk.detail, {}, {}, NoneV, req)
        /\ UNCHANGED <<users, issued, nextJti, now, pairs, inflight, pushVars>>

\* POST /logout.
logout(access_token, refresh_token_) ==
    LET req == [NoReq EXCEPT !.access_token = {access_token},
                             !.refresh_token = {refresh_token_}]
        chk == logout_check(decode_token(access_token, now),
                            decode_token(refresh_token_, now))
        rows == logout_entries(access_token, refresh_token_, now)
    IN  /\ IF chk.status # 200
           THEN /\ resp' = Response("logout", chk.status, chk.detail, {}, {}, NoneV, req)
                /\ UNCHANGED <<blacklist, loggedOut>>
           ELSE IF ~blacklist_accepts(rows)
           THEN /\ resp' = Response("logout", 500, "Internal Server Error",
                                    {}, {}, NoneV, req)
                /\ UNCHANGED <<blacklist, loggedOut>>
           ELSE /\ blacklist' = blacklist \cup Stored(rows)
                /\ loggedOut' = loggedOut \cup {<<access_token, refresh_token_>>}
                /\ resp' = Response("logout", 200, chk.detail, {}, {}, NoneV, req)
        /\ UNCHANGED <<users, issued, nextJti, now, pairs, inflight, pushVars>>

\* ------------------------------------------------------ request authenticator
\* UUID(user_id) succeeds.
IsUUID(s) == \E i \in 1..Len(UserIds) : UserIds[i] = s

\* current_user_id without the parse of sub as a UUID.
current_user_id_any_sub(payload) ==
    IF ~payload.ok
    THEN [status |-> 401, detail |-> "Invalid token", user_id |-> NoneV]
    ELSE IF payload.sub = NoneV
    THEN [status |-> 401, detail |-> "Invalid token payload", user_id |-> NoneV]
    ELSE [status |-> 200, detail |-> NoneV, user_id |-> payload.sub]

\* What get_current_user_id returns or raises for a payload (dependencies.py
\* lines 36-58).
current_user_id(payload) ==
    IF ~payload.ok
    THEN [status |-> 401, detail |-> "Invalid token", user_id |-> NoneV]
    ELSE IF payload.sub = NoneV
    THEN [status |-> 401, detail |-> "Invalid token payload", user_id |-> NoneV]
    ELSE IF ~IsUUID(payload.sub)
    THEN [status |-> 401, detail |-> "Invalid user ID in token", user_id |-> NoneV]
    ELSE [status |-> 200, detail |-> NoneV, user_id |-> payload.sub]

\* A protected request: the dependency get_current_user_id on its bearer token.
get_current_user_id(bearer) ==
    LET req == [NoReq EXCEPT !.bearer = {bearer}]
        r == current_user_id(decode_token(bearer, now))
    IN  /\ resp' = Response("authenticate", r.status, r.detail, {}, {}, r.user_id, req)
        /\ UNCHANGED <<users, blacklist, issued, nextJti, now, pairs, loggedOut, inflight, pushVars>>

\* --------------------------------------------------------------- push tokens
\* A row of table push_tokens as register_push_token stores it. The audit
\* columns created_at and updated_at are left out, here as in users.
PushToken(id, user_id, token, platform, device_id) ==
    [id |-> id, token |-> token, user_id |-> user_id, platform |-> platform,
     device_id |-> device_id, is_active |-> TRUE, last_used_at |-> -1]

\* The primary key of the next row of push_tokens: a fresh uuid4, here the
\* next number.
NextPushTokenId ==
    IF push_tokens = {} THEN 1
    ELSE 1 + (CHOOSE n \in {r.id : r \in push_tokens} :
                 \A r \in push_tokens : r.id <= n)

\* POST /push-tokens/register for the authenticated user_id: a row with the
\* token string is taken over, otherwise a row is inserted. Its HTTP
\* response is not kept.
register_push_token(user_id, token, platform, device_id) ==
    LET existing == {r \in push_tokens : r.token = token}
    IN  /\ IF user_id \notin UserIdsInUse
           THEN UNCHANGED push_tokens
           ELSE IF existing # {}
           THEN push_tokens' = (push_tokens \ existing) \cup
                    {[r EXCEPT !.user_id = user_id, !.platform = platform,
                               !.device_id = device_id, !.is_active = TRUE]
                       : r \in existing}
           ELSE push_tokens' = push_tokens \cup
                    {PushToken(NextPushTokenId, user_id, token, platform, device_id)}
        /\ push_ret' = NoPushRet
        /\ UNCHANGED <<authVars, inflight, firebase_path, firebase_app, bulk>>

\* What a push-token endpoint answered (result is the HTTP status) for the
\* user and the token string of the request.
PushTokenAnswer(op, user_id, token, status) ==
    PushRet(op, user_id, status, {token}, [t \in PushTokenStrings |-> "ok"], <<>>)

\* push_tokens_accepts without the UNIQUE constraint.
push_tokens_accepts_duplicates(token) == TRUE

\* Whether table push_tokens accepts a new row with the token string at
\* db.commit(): column token is UNIQUE; a violation raises IntegrityError.
push_tokens_accepts(token) == \A r \in push_tokens : r.token # token

\* register_push_token served by several server processes over one database:
\* its two queries (lines 36-47); the request is then in flight with the row
\* it loaded.
register_push_token_begin(user_id, token, platform, device_id) ==
    LET rid == CHOOSE i \in 1..(MaxInflight + 1) : \A r \in inflight : r.rid # i
    IN  /\ IF user_id \notin UserIdsInUse
           THEN /\ push_ret' = PushTokenAnswer("register_push_token", user_id, token, "404")
                /\ UNCHANGED inflight
           ELSE /\ Cardinality(inflight) < MaxInflight
                /\ inflight' = inflight \cup
                       {[rid |-> rid, user_id |-> user_id, token |-> token,
                         platform |-> platform, device_id |-> device_id,
                         existing |-> {r \in push_tokens : r.token = token}]}
                /\ push_ret' = NoPushRet
        /\ UNCHANGED <<authVars, push_tokens, firebase_path, firebase_app, bulk>>

\* The row the UPDATE of a request leaves: the unit of work writes the
\* columns whose assigned value differs from the value the request loaded
\* (loaded), onto the row as it is in the table now (row).
updated_row(row, loaded, r) ==
    [row EXCEPT
        !.user_id = IF r.user_id # loaded.user_id THEN r.user_id ELSE @,
        !.platform = IF r.platform # loaded.platform THEN r.platform ELSE @,
        !.device_id = IF r.device_id # loaded.device_id THEN r.device_id ELSE @,
        !.is_active = IF ~loaded.is_active THEN TRUE ELSE @]

\* db.commit() of a request in flight (lines 49-85): the UPDATE of the row it
\* loaded, or the INSERT of a new row; IntegrityError is caught nowhere and
\* ends the request with 500.
register_push_token_commit(r) ==
    /\ r \in inflight
    /\ inflight' = inflight \ {r}
    /\ IF r.existing # {}
       THEN /\ push_tokens' =
                  {IF \E loaded \in r.existing : loaded.id = row.id
                   THEN updated_row(row, CHOOSE loaded \in r.existing : loaded.id = row.id, r)
                   ELSE row : row \in push_tokens}
            /\ push_ret' = PushTokenAnswer("register_push_token", r.user_id, r.token, "201")
       ELSE IF push_tokens_accepts(r.token)
       THEN /\ push_tokens' = push_tokens \cup
                  {PushToken(NextPushTokenId, r.user_id, r.token, r.platform, r.device_id)}
            /\ push_ret' = PushTokenAnswer("register_push_token", r.user_id, r.token, "201")
       ELSE /\ push_ret' = PushTokenAnswer("register_push_token", r.user_id, r.token, "500")
            /\ UNCHANGED push_tokens
    /\ UNCHANGED <<authVars, firebase_path, firebase_app, bulk>>

\* deactivate_push_token looking the row up by its token string alone.
deactivate_push_token_any_owner(user_id, token) ==
    LET found == {r \in push_tokens : r.token = token}
    IN  /\ IF token = NoneV
           THEN /\ push_ret' = PushTokenAnswer("deactivate_push_token", user_id, token, "400")
                /\ UNCHANGED push_tokens
           ELSE IF found = {}
           THEN /\ push_ret' = PushTokenAnswer("deactivate_push_token", user_id, token, "404")
                /\ UNCHANGED push_tokens
           ELSE /\ push_tokens' = (push_tokens \ found) \cup
                       {[r EXCEPT !.is_active = FALSE] : r \in found}
                /\ push_ret' = PushTokenAnswer("deactivate_push_token", user_id, token, "200")
        /\ UNCHANGED <<authVars, inflight, firebase_path, firebase_app, bulk>>

\* POST /push-tokens/deactivate for the authenticated user_id; token is the
\* value of the 'token' key of the body, NoneV when it is missing.
deactivate_push_token(user_id, token) ==
    LET found == {r \in push_tokens : r.token = token /\ r.user_id = user_id}
    IN  /\ IF token = NoneV
           THEN /\ push_ret' = PushTokenAnswer("deactivate_push_token", user_id, token, "400")
                /\ UNCHANGED push_tokens
           ELSE IF found = {}
           THEN /\ push_ret' = PushTokenAnswer("deactivate_push_token", user_id, token, "404")
                /\ UNCHANGED push_tokens
           ELSE /\ push_tokens' = (push_tokens \ found) \cup
                       {[r EXCEPT !.is_active = FALSE] : r \in found}
                /\ push_ret' = PushTokenAnswer("deactivate_push_token", user_id, token, "200")
        /\ UNCHANGED <<authVars, inflight, firebase_path, firebase_app, bulk>>

\* ------------------------------------------------------ push notifications
\* initialize_firebase(): the value of _firebase_app it leaves, and whether
\* it raised. cred_ok: whether the credentials file can be loaded.
initialize_firebase(cred_ok) ==
    IF firebase_app # NoneV
    THEN [app |-> firebase_app, raised |-> FALSE]
    ELSE IF ~firebase_path
    THEN [app |-> NoneV, raised |-> FALSE]
    ELSE IF cred_ok
    THEN [app |-> "app", raised |-> FALSE]
    ELSE [app |-> NoneV, raised |-> TRUE]

\* get_firebase_app().
get_firebase_app(cred_ok) ==
    IF firebase_app = NoneV
    THEN initialize_firebase(cred_ok)
    ELSE [app |-> firebase_app, raised |-> FALSE]

\* The rows the query of _send_notification_internal finds, and the orders
\* .all() may return them in.
ActiveTokens(user_id) == {r \in push_tokens : r.user_id = user_id /\ r.is_active}
Orders(S) ==
    {f \in [1..Cardinality(S) -> S] : \A i, j \in 1..Cardinality(S) : i # j => f[i] # f[j]}

\* The state of the send loop before its first message.
LoopStart ==
    [success_count |-> 0, failed_tokens |-> <<>>, sent_to |-> <<>>, table |-> push_tokens]

\* The send loop of _send_notification_internal (lines 148-167): one
\* messaging.send per message, each in its own try.
\* send_messages marking the token inactive after any failed send.
RECURSIVE send_messages_deactivating_failures(_, _, _, _)
send_messages_deactivating_failures(messages, fcm, t, acc) ==
    IF messages = <<>>
    THEN acc
    ELSE LET token_obj == Head(messages)
             called == [acc EXCEPT !.sent_to = Append(@, token_obj.token)]
             after ==
                 IF fcm[token_obj.token] = "ok"
                 THEN [called EXCEPT
                          !.success_count = @ + 1,
                          !.table = (@ \ {token_obj}) \cup
                                        {[token_obj EXCEPT !.last_used_at = t]}]
                 ELSE [called EXCEPT
                          !.table = (@ \ {token_obj}) \cup
                                        {[token_obj EXCEPT !.is_active = FALSE]},
                          !.failed_tokens = Append(@, token_obj.token)]
         IN  send_messages_deactivating_failures(Tail(messages), fcm, t, after)

RECURSIVE send_messages(_, _, _, _)
send_messages(messages, fcm, t, acc) ==
    IF messages = <<>>
    THEN acc
    ELSE LET token_obj == Head(messages)
             called == [acc EXCEPT !.sent_to = Append(@, token_obj.token)]
             after ==
                 IF fcm[token_obj.token] = "ok"
                 THEN [called EXCEPT
                          !.success_count = @ + 1,
                          !.table = (@ \ {token_obj}) \cup
                                        {[token_obj EXCEPT !.last_used_at = t]}]
                 ELSE IF fcm[token_obj.token] = "unregistered"
                 THEN [called EXCEPT
                          !.table = (@ \ {token_obj}) \cup
                                        {[token_obj EXCEPT !.is_active = FALSE]},
                          !.failed_tokens = Append(@, token_obj.token)]
                 ELSE [called EXCEPT !.failed_tokens = Append(@, token_obj.token)]
         IN  send_messages(Tail(messages), fcm, t, after)

\* _send_notification_internal on the rows its query returned (messages).
send_notification_internal(messages, fcm, t) ==
    IF messages = <<>>
    THEN [result |-> "False", table |-> push_tokens, sent_to |-> <<>>]
    ELSE LET acc == send_messages(messages, fcm, t, LoopStart)
         IN  [result |-> IF acc.success_count > 0 THEN "True" ELSE "False",
              table |-> acc.table, sent_to |-> acc.sent_to]

\* What one call of send_push_notification does: its result, or that it
\* raised, the value of _firebase_app and the rows of push_tokens it leaves,
\* and the tokens it called messaging.send for.
send_push(cred_ok, messages, fcm, t) ==
    LET got == get_firebase_app(cred_ok)
    IN  IF got.raised
        THEN [result |-> "raise", app |-> got.app, table |-> push_tokens, sent_to |-> <<>>]
        ELSE IF got.app = NoneV
        THEN [result |-> "False", app |-> got.app, table |-> push_tokens, sent_to |-> <<>>]
        ELSE [app |-> got.app] @@ send_notification_internal(messages, fcm, t)

\* A call of send_push_notification(user_id, ...); the query returns the
\* user's active rows in some order.
send_push_notification(user_id, cred_ok, fcm) ==
    /\ bulk.pc # "loop"
    /\ \E messages \in Orders(ActiveTokens(user_id)) :
          LET r == send_push(cred_ok, messages, fcm, now)
          IN  /\ firebase_app' = r.app
              /\ push_tokens' = r.table
              /\ push_ret' = PushRet("send", user_id, r.result,
                                     {m.token : m \in ActiveTokens(user_id)},
                                     fcm, r.sent_to)
    /\ UNCHANGED <<authVars, inflight, firebase_path, bulk>>

\* One pass of the loop of send_bulk_notification that lets an exception of
\* send_push_notification go uncounted.
bulk_count_uncaught(results, outcome) ==
    IF outcome = "True"
    THEN [results EXCEPT !.success = @ + 1]
    ELSE IF outcome = "False"
    THEN [results EXCEPT !.failed = @ + 1]
    ELSE results

\* The counting of one pass of the loop of send_bulk_notification (lines
\* 200-208): outcome is what send_push_notification returned, or "raise".
bulk_count(results, outcome) ==
    IF outcome = "True"
    THEN [results EXCEPT !.success = @ + 1]
    ELSE [results EXCEPT !.failed = @ + 1]

\* send_bulk_notification(user_ids, ...) is called: results is set up; with an
\* empty list it returns at once.
send_bulk_notification(user_ids) ==
    /\ bulk.pc # "loop"
    /\ bulk' = [pc |-> IF user_ids = <<>> THEN "done" ELSE "loop",
                user_ids |-> user_ids, processed |-> <<>>, outcomes |-> <<>>,
                results |-> [success |-> 0, failed |-> 0, total |-> Len(user_ids)]]
    /\ push_ret' = NoPushRet
    /\ UNCHANGED <<authVars, inflight, push_tokens, firebase_path, firebase_app>>

\* One pass of the loop of send_bulk_notification: the next user id is
\* notified; after the last one the call returns results.
bulk_iteration(cred_ok, fcm) ==
    /\ bulk.pc = "loop"
    /\ LET user_id == bulk.user_ids[Len(bulk.processed) + 1]
           processed == Append(bulk.processed, user_id)
       IN  \E messages \in Orders(ActiveTokens(user_id)) :
              LET r == send_push(cred_ok, messages, fcm, now)
              IN  /\ firebase_app' = r.app
                  /\ push_tokens' = r.table
                  /\ bulk' = [bulk EXCEPT
                                 !.pc = IF Len(processed) = Len(bulk.user_ids)
                                        THEN "done" ELSE "loop",
                                 !.processed = processed,
                                 !.outcomes = Append(@, r.result),
                                 !.results = bulk_count(@, r.result)]
    /\ push_ret' = NoPushRet
    /\ UNCHANGED <<authVars, inflight, firebase_path>>

\* ------------------------------------------------------------------- claims
\* resp is the response of the request just handled, so in a state with
\* resp.op = "refresh" (or "authenticate") the other variables are the state
\* that request ran in: neither handler writes anything but resp and the
\* issued tokens. The rows of token_blacklist, pairs and loggedOut are then
\* those of requests answered earlier.

\* C1: once logout has answered 200 for a pair (A, R) returned by login, every
\* later refresh carrying R answers 401 and issues no access token, although
\* R has not expired.
C1_RefreshAfterLogoutRejected ==
    \A R \in resp.req.refresh_token :
        (/\ resp.op = "refresh"
         /\ \E pr \in pairs \cap loggedOut : pr[2] = R
         /\ R.exp > now)
        => (resp.status = 401 /\ resp.access_token = {})

\* C2: once logout has answered 200 for an access token A, every later
\* protected request bearing A is rejected by get_current_user_id and obtains
\* no subject id.
C2_BearerAfterLogoutRejected ==
    \A A \in resp.req.bearer :
        (/\ resp.op = "authenticate"
         /\ A.type = "access"
         /\ \E pr \in loggedOut : pr[1] = A)
        => (resp.status = 401 /\ resp.user_id = NoneV)

\* Refresh answered 200 with one new access token for the subject of tok.
RefreshSucceededFor(tok) ==
    /\ resp.status = 200
    /\ Cardinality(resp.access_token) = 1
    /\ \A a \in resp.access_token : a.type = "access" /\ a.sub = tok.sub

\* Refresh answered 401 and issued nothing.
RefreshRejected ==
    /\ resp.status = 401
    /\ resp.access_token = {}
    /\ resp.refresh_token = {}

\* C3 as stated: for every token that decodes, refresh succeeds with a new
\* access token of the same sub when the type is refresh, and answers 401
\* issuing nothing when the type is anything else.
C3_RefreshDecidedByKindAlone ==
    \A tok \in resp.req.refresh_token :
        (resp.op = "refresh" /\ decode_token(tok, now).ok)
        => IF tok.type = "refresh" THEN RefreshSucceededFor(tok) ELSE RefreshRejected

\* C3 as amended: for every token that decodes and carries a subject claim,
\* refresh succeeds with a new access token of the same sub when the type is
\* refresh; for every token that decodes with any other type it answers 401
\* and issues nothing.
C3_RefreshOnlyRefreshKind ==
    \A tok \in resp.req.refresh_token :
        (resp.op = "refresh" /\ decode_token(tok, now).ok)
        => IF tok.type = "refresh"
           THEN tok.sub # NoneV => RefreshSucceededFor(tok)
           ELSE RefreshRejected

\* A refresh token handed out by login has just been exchanged.
C3_Witness ==
    /\ resp.op = "refresh"
    /\ resp.status = 200
    /\ \E tok \in resp.req.refresh_token : tok \in issued /\ tok.type = "refresh"
    /\ \E a \in resp.access_token : a.sub = UserIds[1]

\* C4: get_current_user_id never yields a subject id for a bearer token whose
\* type is refresh.
C4_RefreshTokenNotABearer ==
    \A tok \in resp.req.bearer :
        (resp.op = "authenticate" /\ tok.type = "refresh")
        => (resp.status # 200 /\ resp.user_id = NoneV)

\* In a state with resp.op = "login" the rows of users are those login read,
\* but for last_login of the account that logged in.

\* The login just answered named an email that has no row.
LoginUnknownEmail == resp.op = "login" /\ UserByEmail(resp.req.email) = {}

\* The login just answered named the account u with a wrong password.
LoginWrongPassword(u) ==
    /\ resp.op = "login"
    /\ u.email = resp.req.email
    /\ ~verify_password(resp.req.password, u.hashed_password)

\* The login just answered named the account u with its password.
LoginRightPassword(u) ==
    /\ resp.op = "login"
    /\ u.email = resp.req.email
    /\ verify_password(resp.req.password, u.hashed_password)

\* What the caller sees of a response: everything but the echo of the request.
Seen(r) == [r EXCEPT !.req = NoReq]

\* C5: the response of login to an email with no record is identical, status
\* 401 and detail, to the response to an existing email with a wrong password,
\* whether that account is active or not.
C5_LoginNonEnumeration ==
    /\ \A e1, e2 \in Emails, p1, p2 \in Passwords :
          (/\ UserByEmail(e1) = {}
           /\ \E u \in UserByEmail(e2) : ~verify_password(p2, u.hashed_password))
          => (/\ login_check(e1, p1) = login_check(e2, p2)
              /\ login_check(e1, p1).status = 401)
    /\ (LoginUnknownEmail \/ \E u \in users : LoginWrongPassword(u))
          => Seen(resp) = Response("login", 401, "Invalid email or password",
                                   {}, {}, NoneV, NoReq)

\* A wrong password for an inactive account has just been answered while
\* another email has no record.
C5_Witness ==
    /\ \E u \in users : LoginWrongPassword(u) /\ ~u.is_active
    /\ \E e \in Emails : UserByEmail(e) = {}
    /\ resp.status = 401

\* C6: login with the email and the password of an active record answers 200
\* with exactly one access and one refresh token, both with sub equal to the
\* record's id and with types access and refresh.
C6_LoginIssuesPair ==
    \A u \in users :
        (LoginRightPassword(u) /\ u.is_active)
        => (/\ resp.status = 200
            /\ Cardinality(resp.access_token) = 1
            /\ Cardinality(resp.refresh_token) = 1
            /\ \A a \in resp.access_token : a.type = "access" /\ a.sub = u.id
            /\ \A r \in resp.refresh_token : r.type = "refresh" /\ r.sub = u.id)

\* C7: login with the right password on an inactive account answers 403,
\* issues no token and leaves the rows of users as they were; no login answers
\* 200 for an account that is inactive.
C7_InactiveLoginInv ==
    \A u \in users :
        /\ (LoginRightPassword(u) /\ ~u.is_active)
              => Seen(resp) = Response("login", 403, "User account is disabled",
                                       {}, {}, NoneV, NoReq)
        /\ (resp.op = "login" /\ u.email = resp.req.email /\ ~u.is_active)
              => (resp.status # 200 /\ resp.access_token = {} /\ resp.refresh_token = {})

\* A login step that answers 403 writes no row and hands out no token.
C7_InactiveLoginStep ==
    (resp'.op = "login" /\ resp'.status = 403) => (users' = users /\ issued' = issued)

\* C7 in full: the responses in every state, and the frame of every step
\* that answers 403.
C7_InactiveLoginRejected == []C7_InactiveLoginInv /\ [][C7_InactiveLoginStep]_vars

\* The right password for an inactive account has just been answered.
C7_Witness ==
    /\ \E u \in users : LoginRightPassword(u) /\ ~u.is_active
    /\ resp.status = 403

\* The two tokens of the logout just answered.
LogoutTokens == resp.req.access_token \X resp.req.refresh_token

\* C8: when exactly one of the two tokens decodes, logout answers 200 and
\* writes a revocation row for that token under its subject; it answers
\* "Invalid tokens" only when both fail to decode. Stated over a malformed
\* string and the tokens login and refresh have handed out.
C8_LogoutToleratesOneBadToken ==
    \A tk \in LogoutTokens :
        LET ap == decode_token(tk[1], now)
            rp == decode_token(tk[2], now)
            good == IF ap.ok THEN tk[1] ELSE tk[2]
        IN  (resp.op = "logout" /\ {tk[1], tk[2]} \subseteq issued \cup {Malformed})
            => /\ (ap.ok # rp.ok)
                    => /\ resp.status = 200
                       /\ \E b \in blacklist : b.jti = good.jti /\ b.user_id = good.sub
               /\ (resp.detail = "Invalid tokens") => (~ap.ok /\ ~rp.ok)

\* C9: a second logout with a pair returned by login that logout has already
\* answered 200 for answers 200 again, and the ledger holds exactly one row
\* per jti.
C9_LogoutIdempotent ==
    /\ \A tk \in LogoutTokens :
          (/\ resp.op = "logout"
           /\ tk \in pairs \cap loggedOut
           /\ decode_token(tk[1], now).ok
           /\ decode_token(tk[2], now).ok)
          => resp.status = 200
    /\ \A b1, b2 \in blacklist : b1.jti = b2.jti => b1 = b2

\* C10: two refresh requests that fail for different reasons get the same
\* status and the same detail: the failure just answered is the answer any
\* other failing token would get. Stated over a malformed string and the
\* tokens login and refresh have handed out (expired ones and access tokens).
C10_RefreshFailuresIndistinguishable ==
    \A tok \in resp.req.refresh_token :
        (resp.op = "refresh" /\ resp.status # 200 /\ tok \in issued \cup {Malformed})
        => \A other \in issued \cup {Malformed} :
              LET chk == refresh_check(decode_token(other, now))
              IN  chk.status # 200
                  => (chk.status = resp.status /\ chk.detail = resp.detail)

\* C11: get_current_user_id returns a subject id only when the bearer token
\* decodes, carries a sub claim and the claim parses as a UUID, and the id it
\* returns is the token's sub; in each of the three other cases it answers 401
\* and returns no id.
C11_AuthenticatorContract ==
    \A tok \in resp.req.bearer :
        resp.op = "authenticate"
        => IF decode_token(tok, now).ok /\ tok.sub # NoneV /\ IsUUID(tok.sub)
           THEN resp.status = 200 /\ resp.user_id = tok.sub
           ELSE resp.status = 401 /\ resp.user_id = NoneV

\* A signed, unexpired token whose sub is not a UUID has just been rejected.
C11_Witness ==
    /\ resp.op = "authenticate"
    /\ resp.req.bearer = {BadSubAccess}
    /\ resp.status = 401
    /\ resp.detail = "Invalid user ID in token"

\* C12: every refresh of a signed, unexpired refresh token with a subject
\* answers 200 and returns as refresh_token exactly the token it was given,
\* however many times the token has been exchanged before; it stays
\* exchangeable at every later instant before its exp.
C12_NoRotation ==
    \A tok \in resp.req.refresh_token :
        (/\ resp.op = "refresh"
         /\ tok.sig /\ tok.type = "refresh" /\ tok.sub # NoneV /\ tok.exp > now)
        => /\ resp.status = 200
           /\ resp.refresh_token = {tok}
           /\ \A t \in now..(MaxTime + 1) :
                 tok.exp > t => refresh_check(decode_token(tok, t)).status = 200

\* The same refresh token has just been exchanged for the second time or more:
\* no login has happened, so every access token issued so far came from a
\* refresh of EarlierRefresh.
C12_Witness ==
    /\ resp.op = "refresh"
    /\ resp.status = 200
    /\ resp.req.refresh_token = {EarlierRefresh}
    /\ resp.refresh_token = {EarlierRefresh}
    /\ pairs = {}
    /\ Cardinality(issued) >= 2

\* C15: when the credentials are valid and the account is active but the
\* store write of last_login fails, login still answers 200 and returns the
\* token pair.
C15_LastLoginBestEffort ==
    \A u \in users :
        (LoginRightPassword(u) /\ u.is_active /\ ~resp.req.commit_ok)
        => (/\ resp.status = 200
            /\ Cardinality(resp.access_token) = 1
            /\ Cardinality(resp.refresh_token) = 1)

\* A signed token whose exp has passed at t.
Expired(tok, t) == tok.sig /\ tok.exp <= t

\* C13: no two rows of users share an email or a username, and every
\* register request that does not create its record because the email or the
\* username is held ends in the 400 failure, also when requests run
\* concurrently.
C13_RegisterUniqueOr400 ==
    /\ \A u1, u2 \in users :
          (u1.email = u2.email \/ u1.username = u2.username) => u1 = u2
    /\ (resp.op = "register" /\ resp.status # 201)
          => /\ resp.status = 400
             /\ resp.detail \in {"Email already registered", "Username already taken"}

\* C14: refresh, logout and get_current_user_id each answer an already-expired
\* token with status 401 and hand out nothing (for logout: when both of its
\* tokens have expired).
C14_ExpiredTokenIs401 ==
    /\ \A tok \in resp.req.refresh_token :
          (resp.op = "refresh" /\ Expired(tok, now))
          => (resp.status = 401 /\ resp.access_token = {})
    /\ \A tok \in resp.req.bearer :
          (resp.op = "authenticate" /\ Expired(tok, now))
          => (resp.status = 401 /\ resp.user_id = NoneV)
    /\ \A tk \in LogoutTokens :
          (resp.op = "logout" /\ Expired(tk[1], now) /\ Expired(tk[2], now))
          => resp.status = 401

\* C18: every row logout wrote for tokens handed out by login or refresh
\* records the sub of the token whose jti it holds as user_id and that token's
\* type claim as token_type, whichever field the token was supplied in.
C18_EntryDescribesItsToken ==
    \A pr \in loggedOut : \A i \in 1..2 : \A b \in blacklist :
        ({pr[1], pr[2]} \subseteq issued /\ b.jti = pr[i].jti)
        => (b.user_id = pr[i].sub /\ b.token_type = pr[i].type)

\* The rows a step added to token_blacklist.
Written == blacklist' \ blacklist

\* C19: a logout that answers 200 writes, for each supplied token that decoded
\* and carries a jti, exactly one row with that jti, reason logout and
\* expires_at equal to the token's exp, and writes no other row: none for a
\* token without a jti.
C19_LogoutStep ==
    (resp'.op = "logout" /\ resp'.status = 200)
    => \A tk \in resp'.req.access_token \X resp'.req.refresh_token :
          LET withJti == {i \in 1..2 : decode_token(tk[i], now).ok /\ tk[i].jti # NoneV}
          IN  /\ \A i \in withJti :
                    /\ Cardinality({b \in Written : b.jti = tk[i].jti}) = 1
                    /\ \A b \in Written :
                          b.jti = tk[i].jti
                          => (b.reason = "logout" /\ b.expires_at = tk[i].exp)
              /\ \A b \in Written : \E i \in withJti : b.jti = tk[i].jti
              /\ Cardinality(Written) = Cardinality({tk[i].jti : i \in withJti})

C19_LogoutWritesOneEntryPerJti == [][C19_LogoutStep]_vars

\* Logout has just answered 200 for a token without a jti together with a
\* refresh token of login, and the ledger holds the one row of that token.
C19_Witness ==
    /\ resp.op = "logout"
    /\ resp.status = 200
    /\ resp.req.access_token = {NoJtiAccess}
    /\ resp.req.refresh_token \subseteq issued
    /\ Cardinality(blacklist) = 1
    /\ \A b \in blacklist : \A r \in resp.req.refresh_token :
          b.jti = r.jti /\ b.expires_at = r.exp

\* C20: every step of register, login, refresh, logout and authenticate keeps
\* every row of the ledger as it is; only a logout that answers 200 adds rows.
C20_LedgerStep ==
    /\ blacklist \subseteq blacklist'
    /\ (\/ resp'.op \in {"register", "login", "refresh", "authenticate"}
        \/ (resp'.op = "logout" /\ resp'.status # 200))
          => blacklist' = blacklist

C20_LedgerAppendOnly == [][C20_LedgerStep]_vars

\* A logout has just failed while the ledger holds a row that has expired.
C20_Witness ==
    /\ resp.op = "logout"
    /\ resp.status # 200
    /\ \E b \in blacklist : b.expires_at <= now
    /\ Cardinality(users) = 2

\* What a call that returned has to have done, given the Firebase app it
\* left behind: True exactly when messaging.send accepted the message for at
\* least one of the user's active tokens, False without an app, with no
\* active token and when every send raised; messaging.send called once for
\* each active token, whatever it did for the others.
SendReturned ==
    LET accepted == {t \in push_ret.tokens : push_ret.fcm[t] = "ok"}
        sent == {push_ret.sent_to[i] : i \in 1..Len(push_ret.sent_to)}
    IN  /\ push_ret.result \in {"True", "False"}
        /\ firebase_app = NoneV
              => (push_ret.result = "False" /\ push_ret.sent_to = <<>>)
        /\ firebase_app # NoneV
              => /\ push_ret.result = "True" <=> accepted # {}
                 /\ sent = push_ret.tokens
                 /\ Len(push_ret.sent_to) = Cardinality(push_ret.tokens)

\* C16: every call of send_push_notification returns True or False:
\* True exactly when at least one active token accepted the message, False
\* when Firebase is not initialised, when there is no active token and when
\* every send raised, with one send per active token.
C16_SendAlwaysReturns == push_ret.op = "send" => SendReturned

\* How many entries of a sequence are in a set.
RECURSIVE CountIn(_, _)
CountIn(seq, S) ==
    IF seq = <<>> THEN 0
    ELSE (IF Head(seq) \in S THEN 1 ELSE 0) + CountIn(Tail(seq), S)

\* C17: send_bulk_notification notifies the user ids of its list one by one in
\* order, each once; success counts the calls that returned True and failed
\* the calls that returned False or raised; when it returns, every user id
\* has been notified and success + failed = total = len(user_ids).
C17_BulkCounts ==
    bulk.pc # "idle"
    => /\ Len(bulk.processed) <= Len(bulk.user_ids)
       /\ bulk.processed = SubSeq(bulk.user_ids, 1, Len(bulk.processed))
       /\ Len(bulk.outcomes) = Len(bulk.processed)
       /\ bulk.results.total = Len(bulk.user_ids)
       /\ bulk.results.success = CountIn(bulk.outcomes, {"True"})
       /\ bulk.results.failed = CountIn(bulk.outcomes, {"False", "raise"})
       /\ bulk.pc = "done"
             => /\ bulk.processed = bulk.user_ids
                /\ bulk.results.success + bulk.results.failed = bulk.results.total

\* A bulk call has returned after a notification that raised was followed by
\* one that succeeded.
C17_Witness ==
    /\ bulk.pc = "done"
    /\ Len(bulk.user_ids) = MaxBulk
    /\ \E i \in 1..(Len(bulk.outcomes) - 1) :
          bulk.outcomes[i] = "raise" /\ bulk.outcomes[i + 1] = "True"

\* C21: after a logout with two decodable tokens handed out by login or
\* refresh, each of them has its row in the ledger, also when the row of the
\* other could not be inserted because its jti is already there (stated for
\* ledgers that earlier logouts with such tokens have filled).
C21_LogoutWritesPerToken ==
    \A tk \in LogoutTokens :
        (/\ resp.op = "logout"
         /\ {tk[1], tk[2]} \subseteq issued
         /\ \A pr \in loggedOut : {pr[1], pr[2]} \subseteq issued
         /\ decode_token(tk[1], now).ok
         /\ decode_token(tk[2], now).ok)
        => \A i \in 1..2 : \E b \in blacklist : b.jti = tk[i].jti

\* C25: what refresh answers is decided by the token and the clock alone: a
\* signed, unexpired refresh token with a subject is exchanged for a new
\* access token of that subject whatever the rows of users are (the
\* subject's account disabled or deleted), every other token is answered
\* 401, and no refresh step changes a row of users.
C25_RefreshInv ==
    \A tok \in resp.req.refresh_token :
        resp.op = "refresh"
        => IF tok.sig /\ tok.exp > now /\ tok.type = "refresh" /\ tok.sub # NoneV
           THEN RefreshSucceededFor(tok)
           ELSE RefreshRejected

C25_RefreshStep == resp'.op = "refresh" => users' = users

C25_RefreshIgnoresStore == []C25_RefreshInv /\ [][C25_RefreshStep]_vars

\* A refresh token of login has just been exchanged although the account it
\* was issued to has been deleted.
C25_Witness ==
    /\ resp.op = "refresh"
    /\ resp.status = 200
    /\ \E tok \in resp.req.refresh_token :
          /\ \E pr \in pairs : pr[2] = tok
          /\ \A u \in users : u.id # tok.sub
    /\ \E a \in resp.access_token : a.sub = UserIds[1]

\* A refresh token of login has just been exchanged although the account it
\* was issued to is disabled.
RefreshedForDisabledAccount ==
    /\ resp.op = "refresh"
    /\ resp.status = 200
    /\ \E tok \in resp.req.refresh_token :
          /\ \E pr \in pairs : pr[2] = tok
          /\ \E u \in users : u.id = tok.sub /\ ~u.is_active

\* The row a register_push_token request r turns row x into.
TakenOver(x, r) ==
    [x EXCEPT !.user_id = r.user_id, !.platform = r.platform,
              !.device_id = r.device_id, !.is_active = TRUE]

C22_OneRowPerToken ==
    \A r1 \in push_tokens, r2 \in push_tokens :
        (r1.token = r2.token \/ r1.id = r2.id) => r1 = r2

C22_CommitStep ==
    \A r \in inflight \ inflight' :
        LET rows == {x \in push_tokens : x.token = r.token}
        IN  rows # {} =>
              /\ {x.id : x \in push_tokens'} = {x.id : x \in push_tokens}
              /\ Cardinality(push_tokens') = Cardinality(push_tokens)
              /\ r.existing = rows =>
                    /\ push_tokens' = (push_tokens \ rows) \cup
                                          {TakenOver(x, r) : x \in rows}
                    /\ (\A x \in rows : x = TakenOver(x, r))
                          => push_tokens' = push_tokens

C23_DeactivateStep ==
    push_ret'.op = "deactivate_push_token" =>
        \A t \in push_ret'.tokens :
            LET owned == {x \in push_tokens :
                             x.token = t /\ x.user_id = push_ret'.user_id}
            IN  IF owned = {}
                THEN /\ push_tokens' = push_tokens
                     /\ t # NoneV => push_ret'.result = "404"
                ELSE /\ push_ret'.result = "200"
                     /\ push_tokens' = (push_tokens \ owned) \cup
                            {[x EXCEPT !.is_active = FALSE] : x \in owned}

\* C23: deactivate_push_token answers 404 and changes no row when the token
\* string has no row or its row belongs to another user; for the owner it
\* sets is_active to false on that row and changes no other row.
C23_DeactivateOnlyOwn == [][C23_DeactivateStep]_vars

\* A user asked to deactivate the active token of another user and got 404.
C23_Witness ==
    /\ push_ret.op = "deactivate_push_token"
    /\ push_ret.result = "404"
    /\ \E x \in push_tokens :
          /\ x.token \in push_ret.tokens
          /\ x.user_id # push_ret.user_id
          /\ x.is_active

\* The token strings messaging.send was called for, in a send step.
SentTo(ret) == {ret.sent_to[i] : i \in 1..Len(ret.sent_to)}

C24_SendStep ==
    /\ push_ret'.op = "send" =>
          /\ \A x \in push_tokens :
                \E y \in push_tokens' :
                    /\ y.id = x.id
                    /\ y.is_active =
                          (x.is_active /\ ~(/\ x.token \in SentTo(push_ret')
                                            /\ push_ret'.fcm[x.token] = "unregistered"))
          /\ \A t \in SentTo(push_ret') :
                \E x \in push_tokens :
                    x.token = t /\ x.is_active /\ x.user_id = push_ret'.user_id
    /\ \A x \in push_tokens, y \in push_tokens' :
          (y.id = x.id /\ ~x.is_active /\ y.is_active)
              => (push_ret'.op = "none" /\ y.user_id \in UserIdsInUse)

\* C24: a send marks a token inactive exactly when messaging.send raised
\* UnregisteredError for it; any other failure leaves is_active as it was;
\* messaging.send is called only for tokens that are active, and an inactive
\* token becomes active again only in a register_push_token step.
C24_DeactivationByUnregistered == [][C24_SendStep]_vars

\* A send for a user with an inactive token: it was passed over, while
\* another token of the user failed with an error other than
\* UnregisteredError and is still active.
C24_Witness ==
    /\ push_ret.op = "send"
    /\ \E x \in push_tokens, y \in push_tokens :
          /\ x.user_id = push_ret.user_id
          /\ y.user_id = push_ret.user_id
          /\ ~x.is_active
          /\ x.token \notin SentTo(push_ret)
          /\ y.token \in SentTo(push_ret)
          /\ push_ret.fcm[y.token] = "error"
          /\ y.is_active


\* ----------------------------------------------------------- specifications
\* The token lifecycle over a populated store.
Next ==
    \/ Tick
    \/ \E e \in Emails, p \in Passwords, ok \in BOOLEAN : login(e, p, ok)
    \/ \E tok \in Presentable : refresh_token(tok)
    \/ \E a \in Presentable, r \in Presentable : logout(a, r)
    \/ \E tok \in Presentable : get_current_user_id(tok)

Spec == Init /\ [][Next]_vars

\* Accounts: registration, the active flag and login, from an empty store.
NextAccounts ==
    \/ Tick
    \/ \E u \in users, flag \in BOOLEAN : SetUserActive(u, flag)
    \/ \E e \in Emails, n \in Usernames, p \in RegisterPasswords : register(e, n, p)
    \/ \E e \in Emails, p \in Passwords, ok \in BOOLEAN : login(e, p, ok)

SpecAccounts == InitAccounts /\ [][NextAccounts]_vars

\* The store Init starts from is one register leaves behind.
StoreIsRegisteredUsers == users = RegisteredUsers

\* Issuing and accepting tokens over the populated store, without logout:
\* neither refresh_token nor get_current_user_id reads token_blacklist.
NextIssue ==
    \/ Tick
    \/ \E e \in Emails, p \in Passwords, ok \in BOOLEAN : login(e, p, ok)
    \/ \E tok \in Presentable \cup {BadSubAccess, EarlierRefresh} : refresh_token(tok)
    \/ \E tok \in Presentable \cup {BadSubAccess, EarlierRefresh} : get_current_user_id(tok)

SpecIssue == Init /\ [][NextIssue]_vars

\* The ledger under every endpoint, each token presented in the field it
\* was issued for.
AccessHeld == {t \in issued : t.type = "access"} \cup {Malformed, NoJtiAccess}
RefreshHeld == {t \in issued : t.type = "refresh"} \cup {Malformed}

NextLedger ==
    \/ Tick
    \/ \E e \in Emails, n \in Usernames, p \in RegisterPasswords : register(e, n, p)
    \/ \E e \in Emails, p \in Passwords, ok \in BOOLEAN : login(e, p, ok)
    \/ \E tok \in RefreshHeld : refresh_token(tok)
    \/ \E a \in AccessHeld, r \in RefreshHeld : logout(a, r)
    \/ \E tok \in AccessHeld : get_current_user_id(tok)

SpecLedger == Init /\ [][NextLedger]_vars

\* Registration with requests of several server processes interleaved.
NextRegister ==
    \/ \E e \in Emails, n \in Usernames, p \in RegisterPasswords : register_begin(e, n, p)
    \/ \E r \in inflight : register_commit(r)

SpecRegister == InitAccounts /\ [][NextRegister]_vars

\* The push service in front of the store with one registered account.
InitPush ==
    /\ users = RegisteredUsers
    /\ blacklist = {}
    /\ issued = {}
    /\ nextJti = 0
    /\ now = 0
    /\ resp = NoResponse
    /\ pairs = {}
    /\ loggedOut = {}
    /\ inflight = {}
    /\ push_tokens = {}
    /\ firebase_path \in BOOLEAN
    /\ firebase_app = NoneV
    /\ push_ret = NoPushRet
    /\ bulk = NoBulk

\* The user ids a caller names: those uuid4 can produce for users.id.
UserIdSet == {UserIds[i] : i \in 1..Len(UserIds)}
UserIdLists == UNION {[1..n -> UserIdSet] : n \in 0..MaxBulk}
FcmBehaviours == [PushTokenStrings -> FcmOutcomes]

\* Registration of push tokens and single notifications.
NextPush ==
    \/ \E u \in UserIdSet, t \in PushTokenStrings, pf \in Platforms, d \in DeviceIds :
          register_push_token(u, t, pf, d)
    \/ \E u \in UserIdSet, ok \in BOOLEAN, fcm \in FcmBehaviours :
          send_push_notification(u, ok, fcm)

SpecPush == InitPush /\ [][NextPush]_vars

\* Registration of push tokens and bulk notifications.
NextBulk ==
    \/ \E u \in UserIdSet, t \in PushTokenStrings, pf \in Platforms, d \in DeviceIds :
          register_push_token(u, t, pf, d)
    \/ \E user_ids \in UserIdLists : send_bulk_notification(user_ids)
    \/ \E ok \in BOOLEAN, fcm \in FcmBehaviours : bulk_iteration(ok, fcm)

SpecBulk == InitPush /\ [][NextBulk]_vars

\* Issuing tokens while accounts are disabled, enabled and deleted.
NextStore ==
    \/ Tick
    \/ \E u \in users, flag \in BOOLEAN : SetUserActive(u, flag)
    \/ \E u \in users : DeleteUser(u)
    \/ \E e \in Emails, p \in Passwords, ok \in BOOLEAN : login(e, p, ok)
    \/ \E tok \in Presentable \cup {EarlierRefresh} : refresh_token(tok)

SpecStore == Init /\ [][NextStore]_vars

\* The store of the push-token endpoints: two registered accounts.
DeviceOwners ==
    RegisteredUsers \cup {User(UserIds[2], "b@x.com", "bob", "password123")}

InitDevices ==
    /\ users = DeviceOwners
    /\ blacklist = {}
    /\ issued = {}
    /\ nextJti = 0
    /\ now = 0
    /\ resp = NoResponse
    /\ pairs = {}
    /\ loggedOut = {}
    /\ inflight = {}
    /\ push_tokens = {}
    /\ firebase_path = TRUE
    /\ firebase_app = NoneV
    /\ push_ret = NoPushRet
    /\ bulk = NoBulk

\* The token string the interleaved requests contend for.
ContendedTokens == {"t1"}

\* register_push_token requests for one token string, interleaved between
\* their queries and their commit, and deactivate_push_token.
NextDevices ==
    \/ \E u \in UserIdSet, t \in ContendedTokens, pf \in Platforms, d \in DeviceIds :
          register_push_token_begin(u, t, pf, d)
    \/ \E r \in inflight : register_push_token_commit(r)
    \/ \E u \in UserIdSet, t \in ContendedTokens : deactivate_push_token(u, t)

SpecDevices == InitDevices /\ [][NextDevices]_vars

\* The push-token endpoints and single notifications for two accounts.
NextTokens ==
    \/ \E u \in UserIdSet, t \in PushTokenStrings, pf \in Platforms, d \in DeviceIds :
          register_push_token(u, t, pf, d)
    \/ \E u \in UserIdSet, t \in PushTokenStrings \cup {NoneV} :
          deactivate_push_token(u, t)
    \/ \E u \in UserIdSet, ok \in BOOLEAN, fcm \in FcmBehaviours :
          send_push_notification(u, ok, fcm)

SpecTokens == InitDevices /\ [][NextTokens]_vars

====
